---- MODULE Spec2Model ----
(***************************************************************************)
(* AsanaPrint: DataModel (DataHandler.py), FilterPanel (Filter.py),        *)
(* GanttRenderer (Renderer.py), GanttApp (Application.py) and              *)
(* PresetManager (Preset.py) as a state machine.  A DataFrame is a record of its column names and its rows, a   *)
(* row is a function from column name to cell.  Dates are day numbers,     *)
(* a strftime format is the sequence of its characters.                    *)
(***************************************************************************)
EXTENDS Integers, Sequences, FiniteSets, TLC

VARIABLES data, filters, renderer, app, preset, out

vars == <<data, filters, renderer, app, preset, out>>

----------------------------------------------------------------------------
(* Bounds of the model *)

\* the date controls range over the days 0..MaxDate
MaxDate == 3
\* the format strings handed to _date_width are made of up to this many pieces
MaxPieces == 3
\* files are loaded while the panel holds fewer collapsible widgets than this
MaxWidgets == 4

Dates == 0 .. MaxDate

----------------------------------------------------------------------------
(* Cells, rows and frames *)

\* a missing cell (pandas NaN) and a missing date (pandas NaT)
NaN == "NaN"
NaT == 0 - 1

\* Python's None where a column name or a format is expected
None == "None"

\* str order of the cell texts of the model, as Python's sorted() orders them
StrOrder ==
    <<"", "a", "b", "c", "d", "e", "f", "g", "h", "i", "j", "k", "l", "m", "nan",
      "p", "q", "x", "y">>

StrRank(s) == CHOOSE i \in 1 .. Len(StrOrder) : StrOrder[i] = s

\* sorted(S) for a set of strings
RECURSIVE SortedStrings(_)
SortedStrings(S) ==
    IF S = {} THEN <<>>
    ELSE LET m == CHOOSE x \in S : \A y \in S : StrRank(x) <= StrRank(y)
         IN  <<m>> \o SortedStrings(S \ {m})

\* Series.astype(str) on one cell: a missing cell becomes the text "nan"
AsStr(v) == IF v = NaN THEN "nan" ELSE v

DataFrame(cols, rows) == [none |-> FALSE, columns |-> cols, rows |-> rows]

\* self.df = None / self.current_df = None
NoneDf == [none |-> TRUE, columns |-> <<>>, rows |-> <<>>]

\* df.empty
Empty(df) == Len(df.rows) = 0

HasColumn(df, col) == \E i \in 1 .. Len(df.columns) : df.columns[i] = col

\* df[mask]: the rows whose entry of the boolean mask is TRUE, in their order
FilterRows(df, mask) ==
    LET idx == SelectSeq([i \in 1 .. Len(df.rows) |-> i], LAMBDA i : mask[i])
    IN  [df EXCEPT !.rows = [k \in 1 .. Len(idx) |-> df.rows[idx[k]]]]

----------------------------------------------------------------------------
(* DataHandler.py *)

ASANA_MAPPING(k) ==
    CASE k = "Task ID" -> "TaskID"
      [] k = "Name" -> "TaskName"
      [] k = "Start Date" -> "StartDate"
      [] k = "Due Date" -> "EndDate"
      [] k = "Created At" -> "Created"
      [] k = "Completed At" -> "Completed"
      [] OTHER -> k

\* pd.to_datetime(errors="coerce") on one cell: a day number parses to itself,
\* anything else (an empty or unparseable cell) becomes NaT
ToDatetime(c) == IF c \in Nat THEN c ELSE NaT

\* DataModel.clean raises KeyError when a date column is missing (dropna)
CleanRaises(csv) ==
    LET cols == {ASANA_MAPPING(csv.columns[i]) : i \in 1 .. Len(csv.columns)}
    IN  ~ ({"StartDate", "EndDate"} \subseteq cols)

\* DataModel.clean
clean(csv) ==
    LET cols == [i \in 1 .. Len(csv.columns) |-> ASANA_MAPPING(csv.columns[i])]
        names == {cols[i] : i \in 1 .. Len(cols)}
        Renamed(r) ==
            [c \in names |->
                LET k == CHOOSE k \in DOMAIN r : ASANA_MAPPING(k) = c
                IN  IF c \in {"StartDate", "EndDate"} THEN ToDatetime(r[k]) ELSE r[k]]
        rows == [i \in 1 .. Len(csv.rows) |-> Renamed(csv.rows[i])]
        Complete(r) == r["StartDate"] # NaT /\ r["EndDate"] # NaT
    IN  DataFrame(cols, SelectSeq(rows, Complete))

\* pd.read_csv raises EmptyDataError on a file that has no columns to parse
ReadRaises(csv) == Len(csv.columns) = 0

\* a load that forgets the table before it reads the file
load_csv_clearing(d, csv) ==
    IF ReadRaises(csv) THEN [data |-> [d EXCEPT !.df = NoneDf], raised |-> "EmptyDataError"]
    ELSE IF CleanRaises(csv) THEN [data |-> [d EXCEPT !.df = NoneDf], raised |-> "KeyError"]
    ELSE [data |-> [d EXCEPT !.df = clean(csv)], raised |-> ""]

\* DataModel.load_csv: self.df is assigned after read_csv and clean returned
load_csv(d, csv) ==
    IF ReadRaises(csv) THEN [data |-> d, raised |-> "EmptyDataError"]
    ELSE IF CleanRaises(csv) THEN [data |-> d, raised |-> "KeyError"]
    ELSE [data |-> [d EXCEPT !.df = clean(csv)], raised |-> ""]

----------------------------------------------------------------------------
(* Filter.py *)

IGNORE == {"TaskID", "TaskName", "StartDate", "EndDate", "Created",
           "Completed", "Last Modified", "Assignee Email", "Tags", "Parent task",
           "Blocked By (Dependencies)", "Blocking (Dependencies)"}

\* df[col].nunique(): the distinct values of the column, missing cells not counted
nunique(df, col) ==
    Cardinality({df.rows[i][col] : i \in 1 .. Len(df.rows)} \ {NaN})

\* build_from_df's test of one column: TRUE when the column gets a filter block
IsFilterable(df, col) == col \notin IGNORE /\ ~ (nunique(df, col) <= 0)

\* add_filter_block: the list widget of one column, nothing selected
FilterBlock(df, col) ==
    [column |-> col,
     items |-> SortedStrings({AsStr(df.rows[i][col]) : i \in
                                {j \in 1 .. Len(df.rows) : df.rows[j][col] # NaN}}),
     selected |-> {}]

\* the filter blocks build_from_df adds, in column order
RECURSIVE BuildBlocks(_, _)
BuildBlocks(df, i) ==
    IF i > Len(df.columns) THEN <<>>
    ELSE (IF IsFilterable(df, df.columns[i])
            THEN <<FilterBlock(df, df.columns[i])>> ELSE <<>>)
         \o BuildBlocks(df, i + 1)

\* FilterPanel.build_from_df: remove_filters clears options (and the layout,
\* which deletes the radio buttons, so no colour column stays checked) but
\* not self.collapsibles; add_filter_block appends to both
build_from_df(f, df) ==
    LET blocks == BuildBlocks(df, 1)
    IN  [f EXCEPT !.options = blocks,
                  !.collapsibles = @ \o [i \in 1 .. Len(blocks) |-> blocks[i].column],
                  !.color = None]

\* a date mask that keeps the tasks contained in the window
DateMaskContained(row, start_ts, end_ts) ==
    row["StartDate"] >= start_ts /\ row["EndDate"] <= end_ts

\* the date mask of apply_filters for one row
DateMask(row, start_ts, end_ts) ==
    row["StartDate"] <= end_ts /\ row["EndDate"] >= start_ts

\* a conversion that moves every date one day on
tz_shift(ts) == ts + 1

\* Series.dt.tz_localize(None) on one cell: the dates of the model carry no
\* time zone, and the call leaves such a date as it is
tz_localize(ts) == ts

\* apply_filters rewrites both date columns of its copy of the frame
NormalizeDates(df) ==
    [df EXCEPT !.rows =
        [i \in 1 .. Len(df.rows) |->
            [df.rows[i] EXCEPT !["StartDate"] = tz_localize(ToDatetime(@)),
                               !["EndDate"] = tz_localize(ToDatetime(@))]]]

\* the loop's turn without its test for an empty selection
ColumnStepAlways(df, block) ==
    LET mask == [i \in 1 .. Len(df.rows) |->
                    LET row == df.rows[i] IN AsStr(row[block.column]) \in block.selected]
    IN  FilterRows(df, mask)

\* one turn of the loop over self.options in apply_filters
ColumnStep(df, block) ==
    IF block.selected # {}
      THEN LET mask == [i \in 1 .. Len(df.rows) |->
                           LET row == df.rows[i] IN AsStr(row[block.column]) \in block.selected]
           IN  FilterRows(df, mask)
      ELSE df

RECURSIVE ColumnSteps(_, _, _)
ColumnSteps(df, options, i) ==
    IF i > Len(options) THEN df
    ELSE ColumnSteps(ColumnStep(df, options[i]), options, i + 1)

\* the frame after the date mask of apply_filters
DateStep(f, df) ==
    LET mask == [i \in 1 .. Len(df.rows) |->
                    LET row == df.rows[i] IN DateMask(row, f.start_date, f.end_date)]
    IN  FilterRows(df, mask)

\* FilterPanel.apply_filters: the returned frame, the frame after the date
\* mask, and whether the "Geen Taken" warning was shown
apply_filters(f, df) ==
    IF Empty(df) THEN [df |-> df, dated |-> df, warned |-> FALSE]
    ELSE LET dated == DateStep(f, NormalizeDates(df))
             res == ColumnSteps(dated, f.options, 1)
         IN  [df |-> res, dated |-> dated, warned |-> Empty(res)]

\* a lookup whose last line returns the day scale
get_scale_config_days(text) ==
    CASE text = "Dagen" -> <<"D1", "%d-%b">>
      [] text = "Weken" -> <<"D7", "%d-%b">>
      [] text = "Maanden" -> <<"M1", "%b\n%Y">>
      [] text = "Kwartalen" -> <<"M3", "Q%q: %b\n%Y">>
      [] text = "Jaren" -> <<"M12", "%Y">>
      [] OTHER -> <<"D1", "%d-%b">>

\* FilterPanel.get_scale_config
get_scale_config(text) ==
    CASE text = "Dagen" -> <<"D1", "%d-%b">>
      [] text = "Weken" -> <<"D7", "%d-%b">>
      [] text = "Maanden" -> <<"M1", "%b\n%Y">>
      [] text = "Kwartalen" -> <<"M3", "Q%q: %b\n%Y">>
      [] text = "Jaren" -> <<"M12", "%Y">>
      [] OTHER -> <<"M1", "%b\n%Y">>

\* FilterPanel.get_date_format
get_date_format(f) ==
    LET sep == IF f.month_format = <<"%", "m">> THEN <<"-">> ELSE <<" ">>
        fmt == f.day_format \o sep \o f.month_format
    IN  IF f.year_format # <<>> THEN fmt \o sep \o f.year_format ELSE fmt

----------------------------------------------------------------------------
(* Renderer.py *)

DAY_IN_MS == 86400000
D7 == 7 * DAY_IN_MS

\* len(px.colors.qualitative.G10)
PaletteLen == 10

\* the margin apply_layout and export add to the chart height
LayoutMargin == 120

\* the smallest layout width the charting library accepts: update_layout
\* raises ValueError below it
MinLayoutWidth == 10

\* a tick interval is a code ("M1") or, for weeks, a number of milliseconds
TickCode(code) == [code |-> code, ms |-> 0]
TickMs(ms) == [code |-> "", ms |-> ms]

\* self.current_fig = None / render's return value None
NoneFig ==
    [none |-> TRUE, width |-> 0, height |-> 0, target_col |-> 0,
     categoryarray |-> <<>>, ticktext |-> <<>>, bars |-> <<>>,
     date_tracks |-> FALSE, reversed |-> FALSE,
     dtick |-> TickCode(""), tickformat |-> ""]

\* GanttRenderer._timescale; no case matches an unknown key, which leaves
\* days_scale as it was
_timescale(r, raw_scale) ==
    LET key == raw_scale[1]
        r1 == [r EXCEPT !.timescale = TickCode(key), !.time_format = raw_scale[2]]
    IN  CASE key = "D1" -> [r1 EXCEPT !.days_scale = 1]
          [] key = "D7" -> [r1 EXCEPT !.timescale = TickMs(D7), !.days_scale = 7]
          [] key = "M1" -> [r1 EXCEPT !.days_scale = 28]
          [] key = "M3" -> [r1 EXCEPT !.days_scale = 84]
          [] key = "M12" -> [r1 EXCEPT !.days_scale = 365]
          [] OTHER -> r1

\* "%x" in fmt: the percent sign directly followed by the letter
InFmt(letter, fmt) ==
    \E i \in 1 .. Len(fmt) - 1 : fmt[i] = "%" /\ fmt[i + 1] = letter

\* a width that adds the increment of every component it finds
_date_width_additive(fmt) ==
    40
    + (IF InFmt("A", fmt) THEN 60 ELSE 0) + (IF InFmt("a", fmt) THEN 30 ELSE 0)
    + (IF InFmt("d", fmt) THEN 20 ELSE 0)
    + (IF InFmt("B", fmt) THEN 60 ELSE 0) + (IF InFmt("b", fmt) THEN 30 ELSE 0)
    + (IF InFmt("m", fmt) THEN 20 ELSE 0)
    + (IF InFmt("Y", fmt) THEN 40 ELSE 0) + (IF InFmt("y", fmt) THEN 20 ELSE 0)

\* GanttRenderer._date_width
_date_width(fmt) ==
    40
    + (IF InFmt("A", fmt) THEN 60 ELSE IF InFmt("a", fmt) THEN 30 ELSE 0)
    + (IF InFmt("d", fmt) THEN 20 ELSE 0)
    + (IF InFmt("B", fmt) THEN 60
       ELSE IF InFmt("b", fmt) THEN 30
       ELSE IF InFmt("m", fmt) THEN 20 ELSE 0)
    + (IF InFmt("Y", fmt) THEN 40 ELSE IF InFmt("y", fmt) THEN 20 ELSE 0)

MaxOf(S) == CHOOSE x \in S : \A y \in S : y <= x
MinOf(S) == CHOOSE x \in S : \A y \in S : x <= y

\* the dimensions with the default's width and height swapped
_calculate_dimensions_swapped(r) ==
    IF r.current_df.none THEN <<1080, 1920>>
    ELSE LET rows == r.current_df.rows
             interval == MaxOf({rows[i]["EndDate"] : i \in 1 .. Len(rows)})
                         - MinOf({rows[i]["StartDate"] : i \in 1 .. Len(rows)})
         IN  <<interval * r.col_width, r.task_count * r.row_height>>

\* the dimensions with the interval taken up to the last start date
_calculate_dimensions_starts(r) ==
    IF r.current_df.none THEN <<1920, 1080>>
    ELSE LET rows == r.current_df.rows
             interval == MaxOf({rows[i]["StartDate"] : i \in 1 .. Len(rows)})
                         - MinOf({rows[i]["StartDate"] : i \in 1 .. Len(rows)})
         IN  <<interval * r.col_width, r.task_count * r.row_height>>

\* GanttRenderer._calculate_dimensions: <<timeline_width, height>>
_calculate_dimensions(r) ==
    IF r.current_df.none THEN <<1920, 1080>>
    ELSE LET rows == r.current_df.rows
             interval == MaxOf({rows[i]["EndDate"] : i \in 1 .. Len(rows)})
                         - MinOf({rows[i]["StartDate"] : i \in 1 .. Len(rows)})
         IN  <<interval * r.col_width, r.task_count * r.row_height>>

\* the order of sort_values(["StartDate", "EndDate"]) with ascending left at
\* its default
SortsBeforeAscending(a, b) ==
    \/ a["StartDate"] < b["StartDate"]
    \/ a["StartDate"] = b["StartDate"] /\ a["EndDate"] < b["EndDate"]

\* row a is placed before row b by sort_values(["StartDate", "EndDate"],
\* ascending=[False, False])
SortsBefore(a, b) ==
    \/ a["StartDate"] > b["StartDate"]
    \/ a["StartDate"] = b["StartDate"] /\ a["EndDate"] > b["EndDate"]

\* insert one row into a sorted sequence, behind the rows it ties with
RECURSIVE InsertSorted(_, _)
InsertSorted(row, sorted) ==
    IF sorted = <<>> THEN <<row>>
    ELSE IF SortsBefore(row, Head(sorted)) THEN <<row>> \o sorted
    ELSE <<Head(sorted)>> \o InsertSorted(row, Tail(sorted))

\* df.sort_values(["StartDate", "EndDate"], ascending=[False, False]): stable
RECURSIVE SortRows(_)
SortRows(rows) ==
    IF rows = <<>> THEN <<>>
    ELSE InsertSorted(rows[Len(rows)], SortRows(SubSeq(rows, 1, Len(rows) - 1)))

\* the colour column is set and is a column of the frame
ColorValid(df, color_column) ==
    color_column # None /\ color_column # "" /\ HasColumn(df, color_column)

\* a colour exclusion that only drops missing cells
HasColorNotNa(row, color_column) == row[color_column] # NaN

\* render's colour exclusion: the row's colour cell is present and not ""
HasColor(row, color_column) == row[color_column] # NaN /\ row[color_column] # ""

\* the rows render draws: all of them, or those with a colour value
Drawn(df, color_column) ==
    IF ColorValid(df, color_column)
      THEN LET mask == [i \in 1 .. Len(df.rows) |->
                           LET row == df.rows[i] IN HasColor(row, color_column)]
           IN  FilterRows(df, mask)
      ELSE df

\* df["TaskID"].astype(str).tolist()
TaskIds(rows) == [i \in 1 .. Len(rows) |-> ToString(rows[i]["TaskID"])]

\* a trace coloured by the group's index without the wraparound
BarTraceNoWrap(name, color_idx, rows) ==
    [name |-> name, color |-> color_idx, y |-> TaskIds(rows)]

\* one go.Bar trace: the bars of one group
BarTrace(name, color_idx, rows) ==
    [name |-> name, color |-> color_idx % PaletteLen, y |-> TaskIds(rows)]

\* the traces create_gantt_chart adds for the groups named keys[i..]
RECURSIVE GroupTraces(_, _, _, _)
GroupTraces(df, color_column, keys, i) ==
    IF i > Len(keys) THEN <<>>
    ELSE LET InGroup(row) == row[color_column] = keys[i]
         IN  <<BarTrace(keys[i], i - 1, SelectSeq(df.rows, InGroup))>>
             \o GroupTraces(df, color_column, keys, i + 1)

\* GanttRenderer.create_gantt_chart: the bar traces, one per group; groupby
\* iterates the keys in ascending order and skips missing keys
create_gantt_chart(df, color_column) ==
    IF ~ ColorValid(df, color_column)
      THEN <<BarTrace("Tasks", 0, df.rows)>>
      ELSE LET keys == SortedStrings({df.rows[i][color_column] : i \in 1 .. Len(df.rows)}
                                     \ {NaN})
           IN  GroupTraces(df, color_column, keys, 1)

\* what render does with a frame that has rows to draw: the renderer's new
\* state, the figure, and the exception of the charting library, if any
\* (a negative column width in make_subplots, a layout width below the
\* library's minimum in apply_layout); current_fig is assigned last
RenderRows(r, df, timescale_config, row_height, col_width, dates, date_format, color_column) ==
    LET df_sorted == [df EXCEPT !.rows = SortRows(df.rows)]
        r1 == _timescale([r EXCEPT !.current_df = df_sorted,
                                   !.task_count = Len(df.rows),
                                   !.row_height = row_height,
                                   !.col_width = col_width],
                         timescale_config)
        dims == _calculate_dimensions(r1)
        timeline_width == dims[1]
        r2 == IF dates
                THEN [r1 EXCEPT !.date_format = date_format,
                                !.date_width = _date_width(date_format)]
                ELSE r1
        sum_width == r2.date_width + r2.date_width + timeline_width
        total_width == IF dates
                         THEN (IF sum_width = 0 THEN 1 ELSE sum_width)
                         ELSE timeline_width
        fig == [none |-> FALSE,
                width |-> total_width,
                height |-> dims[2] + LayoutMargin,
                target_col |-> IF dates THEN 3 ELSE 1,
                categoryarray |-> TaskIds(df_sorted.rows),
                ticktext |-> [i \in 1 .. Len(df_sorted.rows) |->
                                 df_sorted.rows[i]["TaskName"]],
                bars |-> create_gantt_chart(df_sorted, color_column),
                date_tracks |-> dates,
                reversed |-> FALSE,
                dtick |-> r2.timescale,
                tickformat |-> r2.time_format]
        raised == IF dates /\ timeline_width < 0 THEN "ValueError"
                  ELSE IF total_width < MinLayoutWidth THEN "ValueError"
                  ELSE ""
    IN  [renderer |-> IF raised = "" THEN [r2 EXCEPT !.current_fig = fig] ELSE r2,
         fig |-> IF raised = "" THEN fig ELSE NoneFig,
         raised |-> raised]

\* GanttRenderer.render
render(r, df, timescale_config, row_height, col_width, dates, date_format, color_column) ==
    IF Empty(df) \/ Empty(Drawn(df, color_column))
      THEN [renderer |-> r, fig |-> NoneFig, raised |-> ""]
      ELSE RenderRows(r, Drawn(df, color_column), timescale_config, row_height,
                      col_width, dates, date_format, color_column)

\* GanttRenderer.export: nothing is written without a figure or a path;
\* otherwise the format, the size handed to write_image, and whether the
\* file was written (an exception of the writer is caught and reported)
export(r, fmt, path_chosen, write_ok) ==
    LET dims == _calculate_dimensions(r)
        total_width == r.date_width * 2 + dims[1]
        total_height == dims[2] + LayoutMargin
    IN  IF r.current_fig.none THEN [op |-> "export_nofig", width |-> 0, height |-> 0]
        ELSE IF ~ path_chosen THEN [op |-> "export_cancel", width |-> 0, height |-> 0]
        ELSE [op |-> IF write_ok THEN "export" ELSE "export_failed",
              width |-> IF fmt = "html" THEN r.current_fig.width ELSE total_width,
              height |-> IF fmt = "html" THEN r.current_fig.height ELSE total_height]

----------------------------------------------------------------------------
(* Preset.py: a dict is the sequence of its <<key, value>> items in insertion
   order, the JSON text of the presets is the sequence of its members, each
   member the preset's name followed by the names of its filters *)

\* the first entry of the combo box
PLACEHOLDER == "-- Kies preset --"

\* d.keys()
Keys(d) == {d[i][1] : i \in 1 .. Len(d)}

\* d[k]
Lookup(d, k) == d[CHOOSE i \in 1 .. Len(d) : d[i][1] = k][2]

\* d[k] = v: an existing key keeps its place, a new key goes last
DictSet(d, k, v) ==
    IF k \in Keys(d)
      THEN [i \in 1 .. Len(d) |-> IF d[i][1] = k THEN <<k, v>> ELSE d[i]]
      ELSE Append(d, <<k, v>>)

\* json.dumps(self.presets, indent=2)
dumps(d) == [i \in 1 .. Len(d) |-> <<d[i][1]>> \o d[i][2].filters]

\* json.loads: the members are inserted one after the other, from the i-th on
RECURSIVE loads(_, _, _)
loads(text, i, d) ==
    IF i > Len(text) THEN d
    ELSE loads(text, i + 1, DictSet(d, Head(text[i]), [filters |-> Tail(text[i])]))

\* the path does not exist
AbsentFile == [exists |-> FALSE, text |-> <<>>]

\* PresetManager._load_file
_load_file(file) == IF file.exists THEN loads(file.text, 1, <<>>) ELSE <<>>

\* PresetManager.refresh_combo: the items of the combo box
refresh_combo(presets) == <<PLACEHOLDER>> \o SortedStrings(Keys(presets))

\* PresetManager.__init__ on the file at self.path
PresetManager(file) ==
    [presets |-> _load_file(file), file |-> file,
     combo |-> [items |-> refresh_combo(_load_file(file)), current |-> PLACEHOLDER]]

\* a save that writes the saved preset alone
add_and_save_partial(p, name, filter_names, write_ok) ==
    LET presets == DictSet(p.presets, name, [filters |-> filter_names])
    IN  IF write_ok
          THEN [preset |-> [presets |-> presets,
                            file |-> [exists |-> TRUE,
                                      text |-> dumps(<<<<name, [filters |-> filter_names]>>>>)],
                            combo |-> [items |-> refresh_combo(presets), current |-> name]],
                raised |-> ""]
          ELSE [preset |-> [p EXCEPT !.presets = presets], raised |-> "OSError"]

\* PresetManager.add_and_save: the entry is set in memory, then the whole
\* mapping is written; write_text raising OSError leaves the file and the
\* combo box as they were
add_and_save(p, name, filter_names, write_ok) ==
    LET presets == DictSet(p.presets, name, [filters |-> filter_names])
    IN  IF write_ok
          THEN [preset |-> [presets |-> presets,
                            file |-> [exists |-> TRUE, text |-> dumps(presets)],
                            combo |-> [items |-> refresh_combo(presets), current |-> name]],
                raised |-> ""]
          ELSE [preset |-> [p EXCEPT !.presets = presets], raised |-> "OSError"]

----------------------------------------------------------------------------
(* State after construction *)

\* DataModel.__init__
DataInit == [df |-> NoneDf]

\* FilterPanel.__init__: the window starts today (day 0) and ends six months
\* later (the last day of the model's calendar)
FiltersInit ==
    [start_date |-> 0, end_date |-> MaxDate,
     scale_combo |-> "Maanden",
     dates |-> FALSE,
     day_format |-> <<"%", "d">>, month_format |-> <<"%", "m">>, year_format |-> <<>>,
     options |-> <<>>, collapsibles |-> <<>>, color |-> None]

\* GanttRenderer.__init__
RendererInit ==
    [current_df |-> NoneDf, current_fig |-> NoneFig,
     task_count |-> 0, row_height |-> 0, col_width |-> 0,
     timescale |-> TickCode("M1"), time_format |-> "%b\n%Y", days_scale |-> 0,
     date_width |-> 0, date_format |-> <<>>]

\* GanttApp.__init__: the Update button disabled, the spin boxes at their
\* defaults, the web view blank
AppInit ==
    [apply_enabled |-> FALSE, row_height |-> 25, col_width |-> 14, web |-> NoneFig]

\* what the last call returned, raised or wrote; nothing yet
NoOut ==
    [op |-> "none", raised |-> "", warned |-> FALSE,
     arg |-> NoneDf, dated |-> NoneDf, filtered |-> NoneDf, again |-> NoneDf,
     text |-> "", color |-> None, fig |-> NoneFig,
     fmt |-> "", width |-> 0, height |-> 0,
     date_format |-> <<>>, names |-> <<>>]

Init ==
    /\ data = DataInit
    /\ filters = FiltersInit
    /\ renderer = RendererInit
    /\ app = AppInit
    /\ preset = PresetManager(AbsentFile)
    /\ out = NoOut

----------------------------------------------------------------------------
(* Inputs *)

NameOf(id) == <<"alpha", "beta", "gamma", "delta">>[id]

\* one line of an exported CSV file
CsvRow(id, start, due, team, status) ==
    ("Task ID" :> id) @@ ("Name" :> NameOf(id)) @@ ("Start Date" :> start)
    @@ ("Due Date" :> due) @@ ("Team" :> team) @@ ("Status" :> status)

CsvColumns == <<"Task ID", "Name", "Start Date", "Due Date", "Team", "Status">>

\* the tasks the CSV files of the filter checks are made of: a short and a
\* long task, a task that ends before it starts, a late one-day task
\* without a team
CsvPool ==
    { CsvRow(1, 1, 2, "a", "x"), CsvRow(2, 0, 3, "b", "y"), CsvRow(3, 2, 1, "a", "y"),
      CsvRow(4, 3, 3, NaN, "x") }

\* every sequence without repetition of the members of S
Orderings(S) ==
    UNION { { s \in [1 .. n -> S] : \A i, j \in 1 .. n : i # j => s[i] # s[j] }
            : n \in 0 .. Cardinality(S) }

\* every file that lists some of the pool's tasks, in any order
FilterCsvs == { [columns |-> CsvColumns, rows |-> rows] : rows \in Orderings(CsvPool) }

\* the files of the application checks: two tasks of two teams; a late task
\* without a team listed before an early task; a file without the "Due Date"
\* column; a file without any content
AppCsvs ==
    { [columns |-> CsvColumns,
       rows |-> <<CsvRow(1, 1, 2, "a", "x"), CsvRow(2, 0, 3, "b", "y")>>],
      [columns |-> CsvColumns,
       rows |-> <<CsvRow(4, 3, 3, NaN, "x"), CsvRow(1, 1, 2, "a", "x")>>],
      [columns |-> <<"Task ID", "Name", "Start Date", "Team", "Status">>,
       rows |-> <<CsvRow(2, 0, 3, "b", "y")>>],
      [columns |-> <<>>, rows |-> <<>>] }

\* one row of a loaded table
TaskRow(id, start, end, team) ==
    [TaskID |-> id, TaskName |-> NameOf(id), StartDate |-> start, EndDate |-> end,
     Team |-> team]

TableColumns == <<"TaskID", "TaskName", "StartDate", "EndDate", "Team">>

\* the tasks the tables of the renderer checks are made of: two tasks of
\* two teams, a task whose team cell is missing and that starts with the
\* second and ends after all others, a one-day task whose team cell is empty
RenderPool ==
    { TaskRow(1, 0, 2, "b"), TaskRow(2, 1, 3, "a"), TaskRow(3, 1, 4, NaN),
      TaskRow(4, 2, 2, "") }

\* one team more than the palette has colours, not in their str order
WideTeams == <<"h", "c", "m", "e", "k", "d", "j", "f", "l", "g", "i">>

\* a table with one task per team of WideTeams, the tasks one day long and
\* starting on three different days
WideTable ==
    DataFrame(TableColumns,
              [i \in 1 .. Len(WideTeams) |->
                  [TaskID |-> 4 + i, TaskName |-> "wide", StartDate |-> i % 3,
                   EndDate |-> (i % 3) + 1, Team |-> WideTeams[i]]])

\* every table that holds some of the pool's tasks, in any order, and the
\* wide table
RenderTables ==
    { DataFrame(TableColumns, rows) : rows \in Orderings(RenderPool) } \cup {WideTable}

\* the texts handed to get_scale_config: two of the combo box and one it
\* does not know
ScaleTexts == {"Weken", "Maanden", "Eeuwen"}

\* the colour columns handed to render: none, a column of the tables, a
\* name that is no column of them
ColorColumns == {None, "Team", "Sprint"}

ExportFormats == {"png", "pdf", "html"}

\* the days the date controls are set to in the application checks
AppDates == {0, MaxDate}

\* the pieces format strings are made of: the directives _date_width looks
\* for, a separator, a lone percent sign and a lone letter
Pieces ==
    { <<"%", "A">>, <<"%", "a">>, <<"%", "d">>, <<"%", "B">>, <<"%", "b">>,
      <<"%", "m">>, <<"%", "Y">>, <<"%", "y">>, <<"-">>, <<"%">>, <<"d">> }

\* the characters of a sequence of pieces
RECURSIVE Flatten(_)
Flatten(ps) == IF ps = <<>> THEN <<>> ELSE Head(ps) \o Flatten(Tail(ps))

\* "%d-%b-%Y"
ExampleFormat == <<"%", "d", "-", "%", "b", "-", "%", "Y">>

\* the format strings handed to _date_width
FormatStrings ==
    { Flatten(ps) : ps \in UNION { [1 .. n -> Pieces] : n \in 0 .. MaxPieces } }
    \cup {ExampleFormat}

\* the names and the filter lists of the presets that are saved
PresetNames == {"p", "q"}
FilterNames == { <<>>, <<"Team">>, <<"Status", "Team">> }

\* the preset files found at start: none, and one written by an earlier run
PresetFiles ==
    { AbsentFile,
      [exists |-> TRUE, text |-> dumps(<<<<"q", [filters |-> <<"Team">>]>>>>)] }

----------------------------------------------------------------------------
(* Application.py: the handlers *)

\* a load handler that enables the Update button before it reads the file
LoadCsvEnablesFirst(csv) ==
    \E res \in {load_csv(data, csv)} :
        /\ data' = res.data
        /\ IF res.raised # ""
             THEN /\ app' = [app EXCEPT !.web = NoneFig, !.apply_enabled = TRUE]
                  /\ out' = [NoOut EXCEPT !.op = "load_csv", !.raised = res.raised]
                  /\ UNCHANGED filters
             ELSE /\ filters' = build_from_df(filters, res.data.df)
                  /\ app' = [app EXCEPT !.web = NoneFig, !.apply_enabled = TRUE]
                  /\ out' = [NoOut EXCEPT !.op = "load_csv"]
        /\ UNCHANGED <<renderer, preset>>

\* GanttApp.load_csv with a file chosen: the web view is blanked first; an
\* exception of DataModel.load_csv leaves the handler there
LoadCsv(csv) ==
    \E res \in {load_csv(data, csv)} :
        /\ data' = res.data
        /\ IF res.raised # ""
             THEN /\ app' = [app EXCEPT !.web = NoneFig]
                  /\ out' = [NoOut EXCEPT !.op = "load_csv", !.raised = res.raised]
                  /\ UNCHANGED filters
             ELSE /\ filters' = build_from_df(filters, res.data.df)
                  /\ app' = [app EXCEPT !.web = NoneFig, !.apply_enabled = TRUE]
                  /\ out' = [NoOut EXCEPT !.op = "load_csv"]
        /\ UNCHANGED <<renderer, preset>>

\* GanttApp.load_csv with the file dialog cancelled
LoadCancel ==
    /\ out' = [NoOut EXCEPT !.op = "load_cancel"]
    /\ UNCHANGED <<data, filters, renderer, app, preset>>

\* the user edits the start-date control
SetStartDate(d) ==
    /\ filters' = [filters EXCEPT !.start_date = d]
    /\ out' = [NoOut EXCEPT !.op = "edit"]
    /\ UNCHANGED <<data, renderer, app, preset>>

\* the user edits the end-date control
SetEndDate(d) ==
    /\ filters' = [filters EXCEPT !.end_date = d]
    /\ out' = [NoOut EXCEPT !.op = "edit"]
    /\ UNCHANGED <<data, renderer, app, preset>>

\* the user changes the selection in the list widget of the i-th filter block
SelectItems(i, sel) ==
    /\ i \in 1 .. Len(filters.options)
    /\ sel \subseteq {filters.options[i].items[k] : k \in 1 .. Len(filters.options[i].items)}
    /\ sel # filters.options[i].selected
    /\ filters' = [filters EXCEPT !.options[i].selected = sel]
    /\ out' = [NoOut EXCEPT !.op = "edit"]
    /\ UNCHANGED <<data, renderer, app, preset>>

\* the user checks the "Kleur" radio button of the i-th filter block
SetColor(i) ==
    /\ i \in 1 .. Len(filters.options)
    /\ filters.color # filters.options[i].column
    /\ filters' = [filters EXCEPT !.color = filters.options[i].column]
    /\ out' = [NoOut EXCEPT !.op = "edit"]
    /\ UNCHANGED <<data, renderer, app, preset>>

\* the user toggles the "Datums" check box
ToggleDates ==
    /\ filters' = [filters EXCEPT !.dates = ~ @]
    /\ out' = [NoOut EXCEPT !.op = "edit"]
    /\ UNCHANGED <<data, renderer, app, preset>>

\* an apply that drops the renderer's figure when the filters keep no row
ApplyDropsFigure ==
    /\ app.apply_enabled
    /\ IF data.df.none
         THEN /\ out' = [NoOut EXCEPT !.op = "apply", !.raised = "AttributeError"]
              /\ UNCHANGED <<renderer, app>>
         ELSE \E res \in {apply_filters(filters, data.df)} :
              IF Empty(res.df)
                THEN /\ out' = [NoOut EXCEPT !.op = "apply", !.arg = data.df,
                                             !.dated = res.dated, !.filtered = res.df,
                                             !.warned = res.warned, !.color = filters.color]
                     /\ renderer' = [renderer EXCEPT !.current_fig = NoneFig]
                     /\ UNCHANGED app
                ELSE \E r \in {render(renderer, res.df, get_scale_config(filters.scale_combo),
                                      app.row_height, app.col_width, filters.dates,
                                      get_date_format(filters), filters.color)} :
                     /\ renderer' = r.renderer
                     /\ app' = IF r.raised = "" /\ ~ r.fig.none
                                 THEN [app EXCEPT !.web = r.fig] ELSE app
                     /\ out' = [NoOut EXCEPT
                                  !.op = "apply", !.arg = data.df,
                                  !.dated = res.dated, !.filtered = res.df,
                                  !.warned = res.warned, !.color = filters.color,
                                  !.fig = r.fig,
                                  !.raised = IF r.raised # "" THEN r.raised
                                             ELSE IF r.fig.none THEN "AttributeError"
                                             ELSE ""]
    /\ UNCHANGED <<data, filters, preset>>

\* an apply that keeps the filtered frame as the loaded table
ApplyKeepsFiltered ==
    /\ app.apply_enabled
    /\ IF data.df.none
         THEN /\ out' = [NoOut EXCEPT !.op = "apply", !.raised = "AttributeError"]
              /\ UNCHANGED <<renderer, app>>
         ELSE \E res \in {apply_filters(filters, data.df)} :
              IF Empty(res.df)
                THEN /\ out' = [NoOut EXCEPT !.op = "apply", !.arg = data.df,
                                             !.dated = res.dated, !.filtered = res.df,
                                             !.warned = res.warned, !.color = filters.color]
                     /\ UNCHANGED <<renderer, app>>
                ELSE \E r \in {render(renderer, res.df, get_scale_config(filters.scale_combo),
                                      app.row_height, app.col_width, filters.dates,
                                      get_date_format(filters), filters.color)} :
                     /\ renderer' = r.renderer
                     /\ app' = IF r.raised = "" /\ ~ r.fig.none
                                 THEN [app EXCEPT !.web = r.fig] ELSE app
                     /\ out' = [NoOut EXCEPT
                                  !.op = "apply", !.arg = data.df,
                                  !.dated = res.dated, !.filtered = res.df,
                                  !.warned = res.warned, !.color = filters.color,
                                  !.fig = r.fig,
                                  !.raised = IF r.raised # "" THEN r.raised
                                             ELSE IF r.fig.none THEN "AttributeError"
                                             ELSE ""]
    /\ data' = IF data.df.none THEN data
               ELSE [data EXCEPT !.df = apply_filters(filters, data.df).df]
    /\ UNCHANGED <<filters, preset>>

\* GanttApp.apply, the Update button's handler: nothing is rendered when the
\* filters keep no row; render's None return makes fig.to_html raise
\* AttributeError, an exception of render leaves the handler
Apply ==
    /\ app.apply_enabled
    /\ IF data.df.none
         THEN /\ out' = [NoOut EXCEPT !.op = "apply", !.raised = "AttributeError"]
              /\ UNCHANGED <<renderer, app>>
         ELSE \E res \in {apply_filters(filters, data.df)} :
              IF Empty(res.df)
                THEN /\ out' = [NoOut EXCEPT !.op = "apply", !.arg = data.df,
                                             !.dated = res.dated, !.filtered = res.df,
                                             !.warned = res.warned, !.color = filters.color]
                     /\ UNCHANGED <<renderer, app>>
                ELSE \E r \in {render(renderer, res.df, get_scale_config(filters.scale_combo),
                                      app.row_height, app.col_width, filters.dates,
                                      get_date_format(filters), filters.color)} :
                     /\ renderer' = r.renderer
                     /\ app' = IF r.raised = "" /\ ~ r.fig.none
                                 THEN [app EXCEPT !.web = r.fig] ELSE app
                     /\ out' = [NoOut EXCEPT
                                  !.op = "apply", !.arg = data.df,
                                  !.dated = res.dated, !.filtered = res.df,
                                  !.warned = res.warned, !.color = filters.color,
                                  !.fig = r.fig,
                                  !.raised = IF r.raised # "" THEN r.raised
                                             ELSE IF r.fig.none THEN "AttributeError"
                                             ELSE ""]
    /\ UNCHANGED <<data, filters, preset>>

\* FilterPanel.apply_filters on a copy of the loaded table
ApplyFilters ==
    /\ ~ data.df.none
    /\ LET res == apply_filters(filters, data.df)
       IN  out' = [NoOut EXCEPT !.op = "apply_filters", !.arg = data.df,
                                !.dated = res.dated, !.filtered = res.df,
                                !.warned = res.warned]
    /\ UNCHANGED <<data, filters, renderer, app, preset>>

\* FilterPanel.apply_filters on the frame it returned
ReapplyFilters ==
    /\ out.op = "apply_filters"
    /\ LET res == apply_filters(filters, out.filtered)
       IN  out' = [out EXCEPT !.op = "reapply_filters", !.again = res.df]
    /\ UNCHANGED <<data, filters, renderer, app, preset>>

\* GanttRenderer.render on the loaded table (all) or on no row of it, with
\* the spin boxes' sizes and the date format of the panel
RenderCall(all, text, dates, color_column) ==
    /\ ~ data.df.none
    /\ LET df == IF all THEN data.df ELSE [data.df EXCEPT !.rows = <<>>]
       IN  \E res \in {render(renderer, df, get_scale_config(text), app.row_height,
                              app.col_width, dates, get_date_format(filters),
                              color_column)} :
              /\ renderer' = res.renderer
              /\ out' = [NoOut EXCEPT !.op = "render", !.raised = res.raised,
                                       !.arg = df, !.text = text,
                                       !.color = color_column, !.fig = res.fig]
    /\ UNCHANGED <<data, filters, app, preset>>

\* an export that drops the figure when the file cannot be written
ExportDropsFigure(fmt, path_chosen, write_ok) ==
    /\ LET res == export(renderer, fmt, path_chosen, write_ok)
       IN  /\ out' = [NoOut EXCEPT !.op = res.op, !.fmt = fmt,
                                    !.width = res.width, !.height = res.height]
           /\ renderer' = IF res.op = "export_failed"
                             THEN [renderer EXCEPT !.current_fig = NoneFig]
                             ELSE renderer
    /\ UNCHANGED <<data, filters, app, preset>>

\* an export button: GanttRenderer.export
Export(fmt, path_chosen, write_ok) ==
    /\ LET res == export(renderer, fmt, path_chosen, write_ok)
       IN  out' = [NoOut EXCEPT !.op = res.op, !.fmt = fmt,
                                !.width = res.width, !.height = res.height]
    /\ UNCHANGED <<data, filters, renderer, app, preset>>

\* GanttRenderer._date_width on the format string handed in
DateWidthCall ==
    /\ out.op = "none"
    /\ out' = [out EXCEPT !.op = "_date_width", !.width = _date_width(out.date_format)]
    /\ UNCHANGED <<data, filters, renderer, app, preset>>

\* PresetManager.add_and_save
AddAndSave(name, filter_names, write_ok) ==
    /\ \E res \in {add_and_save(preset, name, filter_names, write_ok)} :
          /\ preset' = res.preset
          /\ out' = [NoOut EXCEPT !.op = "add_and_save", !.text = name,
                                   !.names = filter_names, !.raised = res.raised]
    /\ UNCHANGED <<data, filters, renderer, app>>

\* the program is started again: PresetManager.__init__ reads the file
Restart ==
    /\ preset' = PresetManager(preset.file)
    /\ out' = [NoOut EXCEPT !.op = "restart"]
    /\ UNCHANGED <<data, filters, renderer, app>>

----------------------------------------------------------------------------
(* The filter panel on every file of FilterCsvs *)

NextFilter ==
    \/ data.df.none /\ \E csv \in FilterCsvs : LoadCsv(csv)
    \/ \E d \in Dates : SetStartDate(d)
    \/ \E d \in Dates : SetEndDate(d)
    \/ \E i \in 1 .. 2, sel \in SUBSET {"a", "b", "x", "y"} : SelectItems(i, sel)
    \/ ApplyFilters
    \/ ReapplyFilters

SpecFilter == Init /\ [][NextFilter]_vars

----------------------------------------------------------------------------
(* Claims about FilterPanel, checked under SpecFilter *)

\* row is a row of the frame
InFrame(row, df) == \E j \in 1 .. Len(df.rows) : df.rows[j] = row

\* the task's interval and the window of the date controls overlap
Overlaps(row) ==
    row["StartDate"] <= filters.end_date /\ row["EndDate"] >= filters.start_date

\* the filter panel without its i-th filter block
Omit(f, i) ==
    [f EXCEPT !.options = SubSeq(@, 1, i - 1) \o SubSeq(@, i + 1, Len(@))]

\* the row passes the selection of every filter block that has one
PassesSelections(row) ==
    \A i \in 1 .. Len(filters.options) :
        filters.options[i].selected # {}
            => AsStr(row[filters.options[i].column]) \in filters.options[i].selected

\* C1: the date step of apply_filters keeps a task iff its StartDate is on or
\* before the end-date control and its EndDate is on or after the start-date
\* control: overlap with the window, not containment in it.
C1_DateOverlap ==
    out.op = "apply_filters" =>
        \A i \in 1 .. Len(out.arg.rows) :
            InFrame(out.arg.rows[i], out.dated) <=> Overlaps(out.arg.rows[i])

\* C1 witness: a task that starts before the window and ends inside it is
\* kept, while another task of the table is dropped
C1_Witness ==
    /\ out.op = "apply_filters"
    /\ \E i, j \in 1 .. Len(out.arg.rows) :
          /\ out.arg.rows[i]["StartDate"] < filters.start_date
          /\ out.arg.rows[i]["EndDate"] <= filters.end_date
          /\ InFrame(out.arg.rows[i], out.dated)
          /\ ~ InFrame(out.arg.rows[j], out.dated)

\* C2 as stated: with the start-date control after the end-date control,
\* apply_filters returns no rows and raises nothing.
C2_InvertedRangeEmpty ==
    (out.op = "apply_filters" /\ filters.start_date > filters.end_date) =>
        (Empty(out.filtered) /\ out.raised = "")

\* C2 amended: with the start-date control after the end-date control,
\* apply_filters raises nothing and returns exactly the rows that start on or
\* before the end-date control, end on or after the start-date control (they
\* span the whole gap between the two) and pass the column selections; the
\* result is empty only when no row does.
C2_InvertedRangeSpanning ==
    (out.op = "apply_filters" /\ filters.start_date > filters.end_date) =>
        /\ out.raised = ""
        /\ \A i \in 1 .. Len(out.arg.rows) :
              InFrame(out.arg.rows[i], out.filtered) <=>
                  /\ out.arg.rows[i]["StartDate"] <= filters.end_date
                  /\ filters.start_date <= out.arg.rows[i]["EndDate"]
                  /\ PassesSelections(out.arg.rows[i])

\* C2 witness: an inverted window and a result that is not empty
C2_Witness ==
    /\ out.op = "apply_filters"
    /\ filters.start_date > filters.end_date
    /\ ~ Empty(out.filtered)

\* C3: a filter block with nothing selected filters like the panel without
\* that block: the same rows come back, the window and the other selections
\* being equal.
C3_EmptySelectionIsOmitted ==
    out.op = "apply_filters" =>
        \A i \in 1 .. Len(filters.options) :
            filters.options[i].selected = {}
                => out.filtered = apply_filters(Omit(filters, i), out.arg).df

\* C3 witness: rows come back although one block has nothing selected and
\* another block has a selection that drops a row
C3_Witness ==
    /\ out.op = "apply_filters"
    /\ Len(filters.options) = 2
    /\ filters.options[1].selected = {}
    /\ filters.options[2].selected # {}
    /\ ~ Empty(out.filtered)
    /\ Len(out.filtered.rows) < Len(out.dated.rows)

\* C4: filtering the filtered frame again, the controls unchanged, returns
\* the same rows in the same order.
C4_FilterIdempotent ==
    out.op = "reapply_filters" => out.again = out.filtered

\* C4 witness: the second pass ran on a frame from which the first pass had
\* dropped rows and kept at least two
C4_Witness ==
    /\ out.op = "reapply_filters"
    /\ Len(out.filtered.rows) >= 2
    /\ Len(out.filtered.rows) < Len(out.arg.rows)

\* C5 as stated: after build_from_df every filter block belongs to a column
\* outside IGNORE that has at least 2 distinct values in the table.
C5_NoConstantColumn ==
    (out.op = "load_csv" /\ out.raised = "") =>
        \A i \in 1 .. Len(filters.options) :
            /\ filters.options[i].column \notin IGNORE
            /\ nunique(data.df, filters.options[i].column) >= 2

\* C11 as stated: after a load every row of the table DataModel holds has a
\* StartDate and an EndDate, and its StartDate is not after its EndDate.
C11_LoadedRowsOrdered ==
    (out.op = "load_csv" /\ out.raised = "") =>
        \A i \in 1 .. Len(data.df.rows) :
            /\ data.df.rows[i]["StartDate"] # NaT
            /\ data.df.rows[i]["EndDate"] # NaT
            /\ data.df.rows[i]["StartDate"] <= data.df.rows[i]["EndDate"]

----------------------------------------------------------------------------
(* The renderer on every table of RenderTables *)

InitRender ==
    /\ data \in { [df |-> t] : t \in RenderTables }
    /\ filters = FiltersInit
    /\ renderer = RendererInit
    /\ app = AppInit
    /\ preset = PresetManager(AbsentFile)
    /\ out = NoOut

NextRender ==
    \/ \E all \in BOOLEAN, text \in ScaleTexts, dates \in BOOLEAN, c \in ColorColumns :
          RenderCall(all, text, dates, c)
    \/ \E fmt \in ExportFormats, path_chosen \in BOOLEAN, write_ok \in BOOLEAN :
          Export(fmt, path_chosen, write_ok)

SpecRender == InitRender /\ [][NextRender]_vars

----------------------------------------------------------------------------
(* _date_width on every format string of FormatStrings *)

InitDateWidth ==
    /\ data = DataInit
    /\ filters = FiltersInit
    /\ renderer = RendererInit
    /\ app = AppInit
    /\ preset = PresetManager(AbsentFile)
    /\ out \in { [NoOut EXCEPT !.date_format = fmt] : fmt \in FormatStrings }

NextDateWidth == DateWidthCall

SpecDateWidth == InitDateWidth /\ [][NextDateWidth]_vars

----------------------------------------------------------------------------
(* The preset manager on every file of PresetFiles *)

InitPreset ==
    /\ data = DataInit
    /\ filters = FiltersInit
    /\ renderer = RendererInit
    /\ app = AppInit
    /\ preset \in { PresetManager(file) : file \in PresetFiles }
    /\ out = NoOut

NextPreset ==
    \/ \E name \in PresetNames, filter_names \in FilterNames, write_ok \in BOOLEAN :
          AddAndSave(name, filter_names, write_ok)
    \/ Restart

SpecPreset == InitPreset /\ [][NextPreset]_vars

----------------------------------------------------------------------------
(* The application on the files of AppCsvs; the list selections are left as
   build_from_df makes them, SpecFilter covers them *)

Next ==
    \/ Len(filters.collapsibles) < MaxWidgets /\ \E csv \in AppCsvs : LoadCsv(csv)
    \/ LoadCancel
    \/ \E d \in AppDates : SetStartDate(d)
    \/ \E d \in AppDates : SetEndDate(d)
    \/ \E i \in 1 .. 2 : SetColor(i)
    \/ ToggleDates
    \/ Apply
    \/ \E fmt \in ExportFormats, path_chosen \in BOOLEAN, write_ok \in BOOLEAN :
          Export(fmt, path_chosen, write_ok)

Spec == Init /\ [][Next]_vars

----------------------------------------------------------------------------
(* Claims about GanttRenderer, checked under SpecRender *)

\* the task ids of all bars of a figure, trace after trace
RECURSIVE BarIds(_)
BarIds(bars) == IF bars = <<>> THEN <<>> ELSE Head(bars).y \o BarIds(Tail(bars))

\* how many bars of the figure belong to the row's task
BarsOf(row, fig) ==
    LET ids == BarIds(fig.bars)
    IN  Cardinality({k \in 1 .. Len(ids) : ids[k] = ToString(row["TaskID"])})

\* the three values the resolver leaves in the renderer
ScaleOf(r) == <<r.timescale, r.time_format, r.days_scale>>

KnownScaleTexts == {"Dagen", "Weken", "Maanden", "Kwartalen", "Jaren"}

\* C6 as stated: a PNG or PDF export is written at the width and the height
\* of the figure the renderer holds.
C6_ExportSizeOfFigure ==
    (out.op = "export" /\ out.fmt \in {"png", "pdf"}) =>
        /\ out.width = renderer.current_fig.width
        /\ out.height = renderer.current_fig.height

\* C8: with a valid colour column, the chart render builds has exactly one
\* bar for every input row whose colour cell is neither missing nor "", and
\* no bar for any other row.
C8_OneBarPerColoredRow ==
    (out.op = "render" /\ ~ out.fig.none /\ out.color # None
        /\ HasColumn(out.arg, out.color)) =>
        /\ \A i \in 1 .. Len(out.arg.rows) :
              BarsOf(out.arg.rows[i], out.fig) =
                  IF out.arg.rows[i][out.color] \notin {NaN, ""} THEN 1 ELSE 0
        /\ Len(BarIds(out.fig.bars)) =
              Cardinality({i \in 1 .. Len(out.arg.rows) :
                              out.arg.rows[i][out.color] \notin {NaN, ""}})

\* C8 witness: four tasks, two of them without a colour value, give two bars
C8_Witness ==
    /\ out.op = "render"
    /\ ~ out.fig.none
    /\ out.color = "Team"
    /\ Len(out.arg.rows) = 4
    /\ Len(BarIds(out.fig.bars)) = 2

\* C9: a render that resolves a text get_scale_config does not know leaves
\* the tick interval, the tick format and the days per tick that resolving
\* "Maanden" in the same state would leave, whatever was resolved before.
C9_UnknownScaleIsMonth ==
    [][(out'.op = "render" /\ out'.text \notin KnownScaleTexts
          /\ ~ Empty(Drawn(out'.arg, out'.color)))
        => ScaleOf(renderer')
             = ScaleOf(_timescale(renderer, get_scale_config("Maanden")))]_vars

\* C9 witness: a render with an unknown text drew a figure while the
\* renderer had resolved weeks before, as the date width of an earlier
\* render with date columns shows
C9_Witness ==
    /\ out.op = "render"
    /\ out.text = "Eeuwen"
    /\ ~ out.fig.none
    /\ renderer.days_scale = 28
    /\ renderer.date_width > 0
    /\ ~ out.fig.date_tracks

\* C10 as stated: after the layout of a zero-row table the dimensions are
\* 1920 by 1080.
C10_EmptyTableDefault ==
    (out.op = "render" /\ Empty(out.arg)) =>
        _calculate_dimensions(renderer) = <<1920, 1080>>

\* C10 amended: render of a zero-row table returns no figure and computes no
\* layout, it leaves the renderer as it was; the dimensions are 1920 by 1080
\* as long as the renderer holds no table, that is until the first render
\* that has rows to draw.
C10_DefaultWithoutTable ==
    [][(out'.op = "render" /\ Empty(out'.arg))
        => /\ renderer' = renderer
           /\ out'.fig.none
           /\ renderer'.current_df.none
                => _calculate_dimensions(renderer') = <<1920, 1080>>]_vars

\* C10 witness: a zero-row table was rendered and the renderer holds no table
C10_Witness ==
    /\ out.op = "render"
    /\ Empty(out.arg)
    /\ ~ Empty(data.df)
    /\ renderer.current_df.none

\* C13: an export whose write fails leaves the figure, the dimensions and
\* the date width of the renderer as they were, and the same export with a
\* write that succeeds is still made.
C13_FailedExportKeepsChart ==
    [][out'.op = "export_failed"
        => /\ renderer'.current_fig = renderer.current_fig
           /\ ~ renderer'.current_fig.none
           /\ _calculate_dimensions(renderer') = _calculate_dimensions(renderer)
           /\ renderer'.date_width = renderer.date_width
           /\ export(renderer', out'.fmt, TRUE, TRUE)
                = [op |-> "export", width |-> out'.width, height |-> out'.height]]_vars

\* C13 witness: the write of a PNG failed while the renderer held a figure
\* with date columns
C13_Witness ==
    /\ out.op = "export_failed"
    /\ out.fmt = "png"
    /\ ~ renderer.current_fig.none
    /\ renderer.current_fig.date_tracks

\* C23 as stated: a render with a positive column width that has rows to
\* draw computes a timeline width above 0, raises nothing and lays the
\* figure out at a total width above 0.
C23_PositiveWidth ==
    (out.op = "render" /\ ~ Empty(Drawn(out.arg, out.color)) /\ app.col_width > 0) =>
        /\ _calculate_dimensions(renderer)[1] > 0
        /\ out.raised = ""
        /\ out.fig.width > 0

\* C15 as stated: a render that draws a figure gives the total width, the
\* height and the date-column width that the same call gives on a renderer
\* that has rendered nothing before.
C15_LayoutDeterministic ==
    (out.op = "render" /\ ~ out.fig.none) =>
        LET fresh == render(RendererInit, out.arg, get_scale_config(out.text),
                            app.row_height, app.col_width, out.fig.date_tracks,
                            get_date_format(filters), out.color)
        IN  <<out.fig.width, out.fig.height, renderer.date_width>>
              = <<fresh.fig.width, fresh.fig.height, fresh.renderer.date_width>>

\* the rows of the frame that have a bar in the figure
Rendered(df, fig) ==
    LET ids == BarIds(fig.bars)
    IN  {i \in 1 .. Len(df.rows) :
            \E k \in 1 .. Len(ids) : ids[k] = ToString(df.rows[i]["TaskID"])}

\* the row of the frame with the task id
RowById(df, id) ==
    df.rows[CHOOSE i \in 1 .. Len(df.rows) : ToString(df.rows[i]["TaskID"]) = id]

\* C17: the y-axis category order of the figure lists every rendered row
\* once, and of two consecutive entries the first has the later start date,
\* or the same start date and the later or equal end date.
C17_RowOrder ==
    (out.op = "render" /\ ~ out.fig.none) =>
        LET ids == out.fig.categoryarray
        IN  /\ Len(ids) = Cardinality(Rendered(out.arg, out.fig))
            /\ {ids[k] : k \in 1 .. Len(ids)}
                 = {ToString(out.arg.rows[i]["TaskID"]) : i \in Rendered(out.arg, out.fig)}
            /\ \A k \in 1 .. Len(ids) - 1 :
                  LET a == RowById(out.arg, ids[k])
                      b == RowById(out.arg, ids[k + 1])
                  IN  \/ a["StartDate"] > b["StartDate"]
                      \/ a["StartDate"] = b["StartDate"] /\ a["EndDate"] >= b["EndDate"]

\* C17 witness: four tasks handed in with the earliest first, two of them
\* starting on the same day, are listed latest first
C17_Witness ==
    /\ out.op = "render"
    /\ ~ out.fig.none
    /\ out.arg.rows[1]["TaskID"] = 1
    /\ out.fig.categoryarray = <<"4", "3", "2", "1">>

\* C18 as stated: the figure render builds has its y-axis marked as
\* reversed.
C18_AxisReversed ==
    (out.op = "render" /\ ~ out.fig.none) => out.fig.reversed

\* C19: the timeline width is the days from the earliest StartDate to the
\* latest EndDate of the rendered rows times the column width, and a figure
\* with date columns is that wide plus twice the date-column width.
C19_TimelineWidth ==
    (out.op = "render" /\ ~ out.fig.none) =>
        LET shown == Rendered(out.arg, out.fig)
            days == MaxOf({out.arg.rows[i]["EndDate"] : i \in shown})
                    - MinOf({out.arg.rows[i]["StartDate"] : i \in shown})
            timeline == days * app.col_width
        IN  /\ _calculate_dimensions(renderer)[1] = timeline
            /\ out.fig.date_tracks
                 => /\ renderer.date_width = _date_width(get_date_format(filters))
                    /\ out.fig.width = timeline + 2 * renderer.date_width

\* C19 witness: with date columns and the colour column set, two of three
\* tasks are rendered; they span 3 days although the table spans 4
C19_Witness ==
    /\ out.op = "render"
    /\ out.fig.date_tracks
    /\ Len(out.arg.rows) = 3
    /\ Cardinality(Rendered(out.arg, out.fig)) = 2
    /\ \E i \in 1 .. 3 : out.arg.rows[i]["EndDate"] = 4
    /\ out.fig.width = 3 * 14 + 2 * 80

\* C20: with a valid colour column the figure has one trace per value of the
\* column among the rendered rows, holding the tasks with that value; the
\* traces come in ascending order of the value and the i-th (from 0) has
\* colour i mod the palette's length.  Without a colour column, or with one
\* that is no column of the table, one trace named "Tasks" holds all tasks.
C20_ColorGrouping ==
    (out.op = "render" /\ ~ out.fig.none) =>
        LET bars == out.fig.bars
            IdsOf(S) == {ToString(out.arg.rows[i]["TaskID"]) : i \in S}
            YOf(i) == {bars[i].y[k] : k \in 1 .. Len(bars[i].y)}
        IN  IF out.color # None /\ HasColumn(out.arg, out.color)
              THEN /\ {bars[i].name : i \in 1 .. Len(bars)}
                        = {out.arg.rows[i][out.color] : i \in 1 .. Len(out.arg.rows)}
                          \ {NaN, ""}
                   /\ \A i \in 1 .. Len(bars) - 1 :
                         StrRank(bars[i].name) < StrRank(bars[i + 1].name)
                   /\ \A i \in 1 .. Len(bars) :
                         /\ bars[i].color = (i - 1) % PaletteLen
                         /\ YOf(i) = IdsOf({j \in 1 .. Len(out.arg.rows) :
                                               out.arg.rows[j][out.color] = bars[i].name})
              ELSE /\ Len(bars) = 1
                   /\ bars[1].name = "Tasks"
                   /\ bars[1].color = 0
                   /\ YOf(1) = IdsOf(1 .. Len(out.arg.rows))

\* C20 witness: eleven teams give eleven traces, and the eleventh has the
\* first colour of the palette again
C20_Witness ==
    /\ out.op = "render"
    /\ out.color = "Team"
    /\ Len(out.fig.bars) = PaletteLen + 1
    /\ out.fig.bars[PaletteLen + 1].color = 0
    /\ out.fig.bars[PaletteLen].color = PaletteLen - 1

----------------------------------------------------------------------------
(* Claims about GanttApp, checked under Spec *)

\* C12: a load that raises (the file has nothing to parse, or lacks a date
\* column) leaves the table DataModel holds as it was.
C12_FailedLoadKeepsTable ==
    [][(out'.op = "load_csv" /\ out'.raised # "") => data'.df = data.df]_vars

\* C12 witness: a load failed for a missing date column while a table with
\* rows was held
C12_Witness ==
    /\ out.op = "load_csv"
    /\ out.raised = "KeyError"
    /\ ~ data.df.none
    /\ ~ Empty(data.df)

\* C24: the Update button is enabled only while DataModel holds a table: it
\* is disabled at start and after a first load that was cancelled or
\* failed, and apply never runs without a table.
C24_ApplyNeedsTable ==
    /\ app.apply_enabled => ~ data.df.none
    /\ out.op \in {"load_cancel", "load_csv"} /\ data.df.none => ~ app.apply_enabled
    /\ out.op = "apply" => ~ data.df.none /\ ~ out.arg.none

\* C24 witness: the first load failed, no table is held and the button is
\* disabled
C24_Witness ==
    /\ out.op = "load_csv"
    /\ out.raised # ""
    /\ data.df.none
    /\ ~ app.apply_enabled

\* C25: an apply whose filters keep no row leaves the renderer as it was,
\* and an export made then has the result it had before the apply.
C25_EmptyApplyKeepsRenderer ==
    [][(out'.op = "apply" /\ Empty(out'.filtered))
        => /\ renderer' = renderer
           /\ \A fmt \in ExportFormats :
                 export(renderer', fmt, TRUE, TRUE) = export(renderer, fmt, TRUE, TRUE)]_vars

\* C25 witness: the filters kept no row of a table with rows, the warning
\* was shown, and the renderer holds the figure of an earlier apply
C25_Witness ==
    /\ out.op = "apply"
    /\ ~ Empty(out.arg)
    /\ Empty(out.filtered)
    /\ out.warned
    /\ ~ renderer.current_fig.none

\* C26: no step but a load changes the table DataModel holds: after any
\* sequence of applies it has the rows, in the order and with the values,
\* it had right after the last load.
C26_ApplyKeepsTable ==
    [][out'.op # "load_csv" => data'.df = data.df]_vars

\* C26 witness: an apply drew a figure from fewer rows than the table holds
C26_Witness ==
    /\ out.op = "apply"
    /\ ~ out.fig.none
    /\ Len(out.filtered.rows) < Len(data.df.rows)
    /\ out.arg = data.df

\* C21 as stated: the list of collapsible widgets has one entry per filter
\* block of the table loaded last, in the order of the blocks, and no other.
C21_CollapsiblesOfLastTable ==
    filters.collapsibles
        = [i \in 1 .. Len(filters.options) |-> filters.options[i].column]

\* C22 as stated: when export writes a file, every row of the table the
\* exported figure was built from is a row of the table DataModel holds.
C22_ExportOfHeldTable ==
    out.op = "export" =>
        \A i \in 1 .. Len(renderer.current_df.rows) :
            InFrame(renderer.current_df.rows[i], data.df)

\* C7 as stated: when every row the filters keep has a missing or empty
\* colour cell, apply raises nothing and renders no chart.
C7_ColorExclusionNoCrash ==
    (out.op = "apply" /\ ~ Empty(out.filtered) /\ out.color # None
        /\ HasColumn(out.filtered, out.color)
        /\ \A i \in 1 .. Len(out.filtered.rows) :
              out.filtered.rows[i][out.color] \in {NaN, ""}) =>
        (out.raised = "" /\ out.fig.none)

----------------------------------------------------------------------------
(* Claims about _date_width, checked under SpecDateWidth *)

\* the directive "%x" occurs in the format string
Occurs(letter, fmt) == \E i \in 1 .. Len(fmt) - 1 : SubSeq(fmt, i, i + 1) = <<"%", letter>>

\* the pixels of the first directive of the category that occurs, the
\* category listed from its most specific directive on
RECURSIVE Increment(_, _)
Increment(category, fmt) ==
    IF category = <<>> THEN 0
    ELSE IF Occurs(Head(category)[1], fmt) THEN Head(category)[2]
    ELSE Increment(Tail(category), fmt)

\* C14: _date_width returns 40 plus, for each of weekday, day number, month
\* and year, the increment of the most specific directive of the category
\* that occurs in the format (%A 60, else %a 30; %d 20; %B 60, else %b 30,
\* else %m 20; %Y 40, else %y 20); "%d-%b-%Y" gives 130.
C14_DateWidth ==
    out.op = "_date_width" =>
        /\ out.width = 40 + Increment(<<<<"A", 60>>, <<"a", 30>>>>, out.date_format)
                           + Increment(<<<<"d", 20>>>>, out.date_format)
                           + Increment(<<<<"B", 60>>, <<"b", 30>>, <<"m", 20>>>>,
                                       out.date_format)
                           + Increment(<<<<"Y", 40>>, <<"y", 20>>>>, out.date_format)
        /\ out.date_format = ExampleFormat => out.width = 130

\* C14 witness: a format with the full and the short month name and the day
\* number gets the full month's increment alone: 40 + 20 + 60
C14_Witness ==
    /\ out.op = "_date_width"
    /\ Occurs("B", out.date_format)
    /\ Occurs("b", out.date_format)
    /\ Occurs("d", out.date_format)
    /\ out.width = 120

----------------------------------------------------------------------------
(* Claims about PresetManager, checked under SpecPreset *)

\* C16: a save that returns leaves the name mapped to {filters: the list
\* handed in} and every other preset as it was, and writes the whole
\* mapping: the file exists and _load_file returns the mapping held in
\* memory; a start without the file holds the empty mapping.
C16_PresetPersistence ==
    [][/\ (out'.op = "add_and_save" /\ out'.raised = "")
           => /\ Keys(preset'.presets) = Keys(preset.presets) \cup {out'.text}
              /\ Len(preset'.presets) = Cardinality(Keys(preset'.presets))
              /\ Lookup(preset'.presets, out'.text) = [filters |-> out'.names]
              /\ \A k \in Keys(preset.presets) \ {out'.text} :
                    Lookup(preset'.presets, k) = Lookup(preset.presets, k)
              /\ preset'.file.exists
              /\ _load_file(preset'.file) = preset'.presets
       /\ (out'.op = "restart" /\ ~ preset'.file.exists)
           => preset'.presets = <<>>]_vars

\* C16 witness: the first of two presets was saved again with other filters
C16_Witness ==
    /\ out.op = "add_and_save"
    /\ out.raised = ""
    /\ Len(preset.presets) = 2
    /\ preset.presets[1][1] = out.text
    /\ out.names = <<"Status", "Team">>

====
